---- MODULE Spec2Model ----
(***************************************************************************)
(* A model of the runtime core of lampod:                                  *)
(*   - LampoHandler (lampod/src/actions/handler.rs): the external handler  *)
(*     chain, the dispatch of external requests and the protocol           *)
(*     callbacks;                                                          *)
(*   - LampoChannelManager (lampod/src/ln/channe_manager.rs): the          *)
(*     start/restart lifecycle, the router cache, the channel projection,  *)
(*     the load of the monitor records and the chain-sync loop.            *)
(* Each subsystem has its own specification over the shared variables:     *)
(* SpecReact, SpecLife, SpecRestore, SpecLoad, SpecSync and SpecHandle.    *)
(***************************************************************************)
EXTENDS Integers, Sequences, FiniteSets, TLC

VARIABLES
    \* ---- LampoHandler ----
    external_handlers,  \* RefCell<Vec<Arc<dyn ExternalHandler>>>
    reactPc,            \* "idle" | "iter": a react(ExternalEvent) is iterating the chain
    reactReq,           \* the request of the dispatch in flight / last dispatched
    replyOpen,          \* whether the receiver of the reply channel is still alive
    reactIdx,           \* position of the iterator over the chain
    consulted,          \* indexes of the handlers invoked for this request, in order
    sent,               \* responses delivered on the reply channel of this request
    reactRet,           \* result of the last react / add_external_handler
    \* ---- LampoChannelManager ----
    cm,                 \* the struct: monitor, graph, score, router, channeld, handler
    disk,               \* files under conf.path: network_graph, scorer, manager, monitors
    io,                 \* effects counted per process: file reads, seed draws, objects built
    last,               \* the last lifecycle call and what it returned
    written,            \* the channels held at the most recent successful snapshot write
    \* ---- Chain-sync loop (listen) ----
    stream,             \* events sent on the handler's channel and not received yet
    closed,             \* all senders of the channel were dropped
    taken,              \* the events the loop received, in order
    listenPc,           \* "unspawned" | "recv" | "monitor" | "manager" | "panicked"
    cur,                \* the on-chain event being applied
    monSeen,            \* calls made on the ChainMonitor, in order
    mgrSeen,            \* calls made on the ChannelManager, in order
    \* ---- load_channel_monitors ----
    registered,         \* outputs the chain backend was asked to watch
    watching,           \* funding outpoints registered with a ChainMonitor, per monitor
    \* ---- LampoHandler::handle ----
    handled,            \* the protocol callbacks handled so far: event, calls made, result
    funded              \* funding transactions the ChannelManager accepted

reactVars == <<external_handlers, reactPc, reactReq, replyOpen, reactIdx, consulted, sent, reactRet>>
lifeVars == <<cm, disk, io, last, written>>
syncVars == <<stream, closed, taken, listenPc, cur, monSeen, mgrSeen>>
loadVars == <<registered, watching>>
handleVars == <<handled, funded>>
vars == <<reactVars, lifeVars, syncVars, loadVars, handleVars>>

None == [kind |-> "None"]
Some(x) == [kind |-> "Some", value |-> x]

\* ------------------------------------------------------------------------
\* Bounds of the model
\* ------------------------------------------------------------------------
MaxHandlers == 3
MaxCalls == 3
MaxChannels == 1
MaxEvents == 3
MaxHandled == 2

----------------------------------------------------------------------------
(***************************************************************************)
(* External handler chain and react(ExternalEvent)                         *)
(***************************************************************************)

Methods == {"foo", "bar"}

\* The handlers registered in the model: A never matches, B answers "foo",
\* C answers "foo" and "bar", E fails on "foo" and has no opinion on "bar".
HandlerIds == {"A", "B", "C", "E"}

\* ExternalHandler::handle(&req) -> Result<Option<Value>>
ExternalHandle(h, req) ==
    CASE h = "B" /\ req.method = "foo" -> [kind |-> "Some", resp |-> <<h, req.method>>]
      [] h = "C"                       -> [kind |-> "Some", resp |-> <<h, req.method>>]
      [] h = "E" /\ req.method = "foo" -> [kind |-> "Err", err |-> <<"handler error", h>>]
      [] OTHER                         -> [kind |-> "None"]

Requests == [method : Methods]

Ok == [kind |-> "Ok"]
Err(e) == [kind |-> "Err", err |-> e]
Panic(msg) == [kind |-> "Panic", msg |-> msg]

\* error::bail! with the message: method, the quoted req.method, not found
MethodNotFound(req) == Err(<<"method", req.method, "not found">>)

\* chan.send(resp)?: the send fails when the receiver was dropped
SendError == Err(<<"sending on a disconnected channel">>)

InitReact ==
    /\ external_handlers = <<>>
    /\ reactPc = "idle"
    /\ reactReq = None
    /\ replyOpen = TRUE
    /\ reactIdx = 0
    /\ consulted = <<>>
    /\ sent = <<>>
    /\ reactRet = None

\* add_external_handler with no dispatch iterating the chain: borrow_mut, push
AddIdle(h) ==
    /\ external_handlers' = Append(external_handlers, h)
    /\ reactRet' = Ok
    /\ UNCHANGED <<reactPc, reactReq, replyOpen, reactIdx, consulted, sent>>

\* add_external_handler: while a dispatch holds the shared borrow of the chain,
\* borrow_mut panics (BorrowMutError) and the chain is left as it was. Called
\* re-entrantly from the handler being consulted, the panic unwinds through
\* react as well; called from another thread, the dispatch goes on.
AddExternalHandler(h) ==
    /\ Len(external_handlers) < MaxHandlers
    /\ \/ /\ reactPc = "idle"
          /\ AddIdle(h)
       \/ /\ reactPc = "iter"
          /\ reactRet' = Panic("already borrowed: BorrowMutError")
          /\ \/ reactPc' = "idle"
             \/ reactPc' = "iter"
          /\ UNCHANGED <<external_handlers, reactReq, replyOpen, reactIdx, consulted, sent>>
    /\ UNCHANGED <<lifeVars, syncVars, loadVars, handleVars>>

\* react(LampoEvent::ExternalEvent(req, chan)): the chain is borrowed and the
\* iteration starts at its first handler
ReactExternal(req, open) ==
    /\ reactPc = "idle"
    /\ reactPc' = "iter"
    /\ reactReq' = req
    /\ replyOpen' = open
    /\ reactIdx' = 1
    /\ consulted' = <<>>
    /\ sent' = <<>>
    /\ reactRet' = None
    /\ UNCHANGED <<external_handlers, lifeVars, syncVars, loadVars, handleVars>>

ConsultSkipsOnError(h, r) ==
    CASE r.kind = "Some" -> IF replyOpen
                            THEN [pc |-> "idle", sent |-> Append(sent, r.resp), ret |-> Ok]
                            ELSE [pc |-> "idle", sent |-> sent, ret |-> SendError]
      [] OTHER           -> [pc |-> "iter", sent |-> sent, ret |-> None]

ConsultKeepsGoing(h, r) ==
    CASE r.kind = "Some" -> IF replyOpen
                            THEN [pc |-> "iter", sent |-> Append(sent, r.resp), ret |-> None]
                            ELSE [pc |-> "idle", sent |-> sent, ret |-> SendError]
      [] r.kind = "Err"  -> [pc |-> "idle", sent |-> sent, ret |-> Err(r.err)]
      [] OTHER           -> [pc |-> "iter", sent |-> sent, ret |-> None]

\* The body of the loop: if let Some(resp) = handler.handle(&req)? { chan.send(resp)?; return Ok(()) }
ConsultOutcome(h, r) ==
    CASE r.kind = "Some" -> IF replyOpen
                            THEN [pc |-> "idle", sent |-> Append(sent, r.resp), ret |-> Ok]
                            ELSE [pc |-> "idle", sent |-> sent, ret |-> SendError]
      [] r.kind = "Err"  -> [pc |-> "idle", sent |-> sent, ret |-> Err(r.err)]
      [] OTHER           -> [pc |-> "iter", sent |-> sent, ret |-> None]

ExhaustedSilently(req) == Ok

\* The chain is exhausted: error::bail!
Exhausted(req) == MethodNotFound(req)

\* One step of the iteration over the chain
ReactConsult ==
    /\ reactPc = "iter"
    /\ IF reactIdx > Len(external_handlers)
       THEN /\ reactPc' = "idle"
            /\ reactRet' = Exhausted(reactReq)
            /\ UNCHANGED <<reactIdx, consulted, sent>>
       ELSE LET h == external_handlers[reactIdx]
                o == ConsultOutcome(h, ExternalHandle(h, reactReq))
            IN  /\ consulted' = Append(consulted, reactIdx)
                /\ reactIdx' = reactIdx + 1
                /\ reactPc' = o.pc
                /\ sent' = o.sent
                /\ reactRet' = o.ret
    /\ UNCHANGED <<external_handlers, reactReq, replyOpen, lifeVars, syncVars, loadVars, handleVars>>

----------------------------------------------------------------------------
(***************************************************************************)
(* LampoChannelManager: lifecycle                                          *)
(***************************************************************************)

\* conf.network
Network == "testnet"

Hashes == {"H1", "H2"}
\* bitcoin::locktime::Height, a wrapper around the consensus u32
Heights == {<<"Height", 100>>}
Timestamps == {7}
\* get_secure_random_bytes()
Seeds == {"seedA", "seedB"}

\* Height::to_consensus_u32
ToConsensusU32(height) == height[2]

\* ---- files under conf.path ------------------------------------------------

Missing == [kind |-> "missing"]
Corrupt == [kind |-> "corrupt"]
Unreadable(f) == f.kind \in {"missing", "corrupt"}

GraphFiles == {Missing, Corrupt, [kind |-> "graph", network |-> Network, nodes |-> 2]}
ScorerFiles == {Missing, Corrupt, [kind |-> "scorer", data |-> "learned"]}

\* NetworkGraph::new(network, logger)
NewGraph(network) == [network |-> network, nodes |-> 0]

\* NetworkGraph::read
DecodeGraph(f) == [network |-> f.network, nodes |-> f.nodes]

\* read_network: the graph of the file, or an empty graph for conf.network
read_network(f) ==
    IF ~Unreadable(f) THEN DecodeGraph(f) ELSE NewGraph(Network)

\* ProbabilisticScoringDecayParameters::default()
DefaultDecay == "default decay"

ReadScorerOnEmptyGraph(f, graph) ==
    IF ~Unreadable(f)
    THEN [params |-> DefaultDecay, graph |-> graph, data |-> f.data]
    ELSE [params |-> DefaultDecay, graph |-> NewGraph(Network), data |-> "fresh"]

\* read_scorer: the scorer of the file read against the graph in use, or a fresh one
read_scorer(f, graph) ==
    IF ~Unreadable(f)
    THEN [params |-> DefaultDecay, graph |-> graph, data |-> f.data]
    ELSE [params |-> DefaultDecay, graph |-> graph, data |-> "fresh"]

\* ---- the struct and the per-process effects -------------------------------

\* LampoChannelManager::new
NewManager ==
    [monitor |-> None, graph |-> None, score |-> None, router |-> None,
     channeld |-> None, handler |-> None]

NoIo == [graphReads |-> 0, scorerReads |-> 0, seedDraws |-> 0]

\* build_channel_monitor: a new ChainMonitor, identified by the call that built it
build_channel_monitor(n) == [kind |-> "ChainMonitor", id |-> n]

NetworkGraphRebuilds(st, n, seed) ==
    LET g == read_network(disk.graph)
        scorer == read_scorer(disk.scorer, g)
    IN  [cm |-> [st.cm EXCEPT !.graph = g, !.score = scorer,
                              !.router = [id |-> n, graph |-> g, scorer |-> scorer,
                                          seed |-> seed]],
         io |-> [graphReads |-> st.io.graphReads + 1,
                 scorerReads |-> st.io.scorerReads + 1,
                 seedDraws |-> st.io.seedDraws + 1]]

\* network_graph(&mut self): builds graph, scorer and router when no router is
\* cached; st = [cm, io], n the number of the call, seed the random bytes the
\* key manager would hand out
network_graph(st, n, seed) ==
    IF st.cm.router = None
    THEN LET g == read_network(disk.graph)
             scorer == read_scorer(disk.scorer, g)
         IN  [cm |-> [st.cm EXCEPT !.graph = g, !.score = scorer,
                                   !.router = [id |-> n, graph |-> g, scorer |-> scorer,
                                               seed |-> seed]],
              io |-> [graphReads |-> st.io.graphReads + 1,
                      scorerReads |-> st.io.scorerReads + 1,
                      seedDraws |-> st.io.seedDraws + 1]]
    ELSE st

\* ---- the ChannelManager and its snapshot ----------------------------------

NodeIds == {"02aa"}
Amounts == {50000, 120000}

\* ChannelDetails of a channel just created by create_channel
NewChannel(node_id, amount, public) ==
    [short_channel_id |-> None, node_id |-> node_id, is_channel_ready |-> FALSE,
     channel_value_satoshis |-> amount, balance_msat |-> amount * 1000,
     is_public |-> public, outbound_capacity_msat |-> amount * 1000,
     inbound_capacity_msat |-> 0]

\* Writeable for ChannelManager: the best block, then one entry per channel
EncodeChannel(c) ==
    <<c.short_channel_id, c.node_id, c.is_channel_ready, c.channel_value_satoshis,
      c.balance_msat, c.is_public, c.outbound_capacity_msat, c.inbound_capacity_msat>>

EncodeManager(m) ==
    [kind |-> "manager", best_block |-> m.best_block,
     channels |-> [i \in 1..Len(m.channels) |-> EncodeChannel(m.channels[i])]]

DecodeChannel(t) ==
    [short_channel_id |-> t[1], node_id |-> t[2], is_channel_ready |-> t[3],
     channel_value_satoshis |-> t[4], balance_msat |-> t[5], is_public |-> t[6],
     outbound_capacity_msat |-> t[7], inbound_capacity_msat |-> t[8]]

\* <(BlockHash, ChannelManager)>::read(file, read_args): the manager of the
\* snapshot, wired to the monitor and router of read_args
ReadManager(f, n, monitor, router) ==
    [id |-> n, origin |-> "read", best_block |-> f.best_block,
     channels |-> [i \in 1..Len(f.channels) |-> DecodeChannel(f.channels[i])],
     monitor |-> monitor, router |-> router]

\* ChannelManager::new(.., chain_monitor, .., router, .., chain_params, timestamp)
ChannelManagerNew(n, monitor, router, best_block, timestamp) ==
    [id |-> n, origin |-> "new", best_block |-> best_block, channels |-> <<>>,
     monitor |-> monitor, router |-> router]

\* persister.read_channelmonitors(keys, keys): the persisted monitor records
MonitorFiles == {Corrupt, [kind |-> "monitors", records |-> <<>>]}

GetChannelMonitorsRecovers ==
    IF Unreadable(disk.monitors)
    THEN [kind |-> "Ok", value |-> <<>>]
    ELSE [kind |-> "Ok", value |-> disk.monitors.records]

get_channel_monitors ==
    IF Unreadable(disk.monitors)
    THEN Err(<<"io", "channel monitors">>)
    ELSE [kind |-> "Ok", value |-> disk.monitors.records]

\* ---- load_channel_monitors --------------------------------------------------

\* Persisted monitor records: the funding outpoint of the channel and the
\* outputs its monitor wants watched
MonitorRecords ==
    <<[funding_txo |-> "txo1", outputs |-> {"out1a", "out1b"}],
      [funding_txo |-> "txo2", outputs |-> {"out2a"}]>>

LoadMonitorFiles ==
    {Corrupt} \cup {[kind |-> "monitors", records |-> SubSeq(MonitorRecords, 1, k)] : k \in 0..2}

\* chan_mon.load_outputs_to_watch(&self.onchain) over the drained records
OutputsToWatch(records) == UNION {records[i].outputs : i \in 1..Len(records)}

\* monitor.watch_channel(chan_mon.get_funding_txo().0, chan_mon) per record
WatchChannels(monitor, records) ==
    {[monitor |-> monitor.id, outpoint |-> records[i].funding_txo] : i \in 1..Len(records)}

LoadOutputsOnlyWhenWatching(c, watch, reg, wat) ==
    IF Unreadable(disk.monitors)
    THEN [registered |-> reg, watching |-> wat, ret |-> Err(<<"io", "channel monitors">>)]
    ELSE LET records == disk.monitors.records
         IN  [registered |-> IF watch THEN reg \cup OutputsToWatch(records) ELSE reg,
              watching |-> IF watch /\ c.monitor # None
                           THEN wat \cup WatchChannels(c.monitor, records)
                           ELSE wat,
              ret |-> Ok]

\* load_channel_monitors(&self, watch): reg and wat are the outputs and the
\* channels registered so far. Returns [registered, watching, ret].
load_channel_monitors(c, watch, reg, wat) ==
    IF Unreadable(disk.monitors)
    THEN [registered |-> reg, watching |-> wat, ret |-> Err(<<"io", "channel monitors">>)]
    ELSE LET records == disk.monitors.records
         IN  [registered |-> reg \cup OutputsToWatch(records),
              watching |-> IF watch /\ c.monitor # None
                           THEN wat \cup WatchChannels(c.monitor, records)
                           ELSE wat,
              ret |-> Ok]

\* ---- start / restart ------------------------------------------------------

StartManagerFirst(st, n, seed, block, height, timestamp) ==
    LET best == <<block, ToConsensusU32(height)>>
        manager == ChannelManagerNew(n, st.cm.monitor, st.cm.router, best, timestamp)
        s1 == [st EXCEPT !.cm.monitor = build_channel_monitor(n)]
        s2 == network_graph(s1, n, seed)
    IN  [cm |-> [s2.cm EXCEPT !.channeld = manager], io |-> s2.io, ret |-> Ok]

StartIgnoresBlock(st, n, seed, block, height, timestamp) ==
    LET s1 == [st EXCEPT !.cm.monitor = build_channel_monitor(n)]
        s2 == network_graph(s1, n, seed)
        manager == ChannelManagerNew(n, s1.cm.monitor, s2.cm.router,
                                     <<"H1", 0>>, timestamp)
    IN  [cm |-> [s2.cm EXCEPT !.channeld = manager], io |-> s2.io, ret |-> Ok]

\* start(&mut self, block, height, block_timestamp)
start(st, n, seed, block, height, timestamp) ==
    LET best == <<block, ToConsensusU32(height)>>
        s1 == [st EXCEPT !.cm.monitor = build_channel_monitor(n)]
        s2 == network_graph(s1, n, seed)
        manager == ChannelManagerNew(n, s1.cm.monitor, s2.cm.router, best, timestamp)
    IN  [cm |-> [s2.cm EXCEPT !.channeld = manager], io |-> s2.io, ret |-> Ok]

RestartFallsBackToFresh(st, n, seed) ==
    LET s1 == [st EXCEPT !.cm.monitor = build_channel_monitor(n)]
        s2 == network_graph(s1, n, seed)
        monitors == get_channel_monitors
        fresh == ChannelManagerNew(n, s2.cm.monitor, s2.cm.router, <<"H1", 0>>, 0)
    IN  IF monitors.kind = "Err" \/ Unreadable(disk.manager)
        THEN [cm |-> [s2.cm EXCEPT !.channeld = fresh], io |-> s2.io,
              ret |-> Err(<<"io", "manager">>)]
        ELSE [cm |-> [s2.cm EXCEPT !.channeld =
                          ReadManager(disk.manager, n, s2.cm.monitor, s2.cm.router)],
              io |-> s2.io, ret |-> Ok]

RestartEmptyManager(st, n, seed) ==
    LET s1 == [st EXCEPT !.cm.monitor = build_channel_monitor(n)]
        s2 == network_graph(s1, n, seed)
        monitors == get_channel_monitors
    IN  IF monitors.kind = "Err"
        THEN [cm |-> s2.cm, io |-> s2.io, ret |-> monitors]
        ELSE IF disk.manager.kind = "missing"
        THEN [cm |-> s2.cm, io |-> s2.io, ret |-> Err(<<"io", "manager">>)]
        ELSE IF disk.manager.kind = "corrupt"
        THEN [cm |-> s2.cm, io |-> s2.io, ret |-> Err(<<"decode", "manager">>)]
        ELSE [cm |-> [s2.cm EXCEPT !.channeld =
                          ChannelManagerNew(n, s2.cm.monitor, s2.cm.router,
                                            disk.manager.best_block, 0)],
              io |-> s2.io, ret |-> Ok]

\* restart(&mut self): a new monitor, the router, the monitor records, then
\* the manager snapshot; each ? returns with what was installed so far
restart(st, n, seed) ==
    LET s1 == [st EXCEPT !.cm.monitor = build_channel_monitor(n)]
        s2 == network_graph(s1, n, seed)
        monitors == get_channel_monitors
    IN  IF monitors.kind = "Err"
        THEN [cm |-> s2.cm, io |-> s2.io, ret |-> monitors]
        ELSE IF disk.manager.kind = "missing"
        THEN [cm |-> s2.cm, io |-> s2.io, ret |-> Err(<<"io", "manager">>)]
        ELSE IF disk.manager.kind = "corrupt"
        THEN [cm |-> s2.cm, io |-> s2.io, ret |-> Err(<<"decode", "manager">>)]
        ELSE [cm |-> [s2.cm EXCEPT !.channeld =
                          ReadManager(disk.manager, n, s2.cm.monitor, s2.cm.router)],
              io |-> s2.io, ret |-> Ok]

\* is_restarting: Path::exists on conf.path/manager
is_restarting == [kind |-> "Ok", value |-> disk.manager.kind # "missing"]

\* ---- list_channel ---------------------------------------------------------

\* ToHex of the counterparty node id
ToHex(node_id) == <<"hex", node_id>>

\* The closure of list_channel: ChannelDetails -> response::Channel
ChannelOf(channel) ==
    [short_channel_id |-> channel.short_channel_id,
     peer_id |-> ToHex(channel.node_id),
     peer_alias |-> None,
     ready |-> channel.is_channel_ready,
     amount_satoshis |-> channel.channel_value_satoshis,
     amount_msat |-> channel.balance_msat,
     public |-> channel.is_public,
     available_balance_for_send_msat |-> channel.outbound_capacity_msat,
     available_balance_for_recv_msat |-> channel.inbound_capacity_msat]

\* manager(): self.channeld.clone().unwrap()
ManagerInstalled(c) == c.channeld # None

\* list_channel(&self)
list_channel(c) ==
    IF ~ManagerInstalled(c)
    THEN Panic("called Option::unwrap() on a None value")
    ELSE [kind |-> "Ok",
          value |-> [i \in 1..Len(c.channeld.channels) |-> ChannelOf(c.channeld.channels[i])]]

\* ---- open_channel ---------------------------------------------------------

OpenChannelRequests == [node_id : NodeIds \cup {"not a key"}, amount : Amounts, public : BOOLEAN]

OpenChannelPushesAmount(c, req, created) ==
    IF ~ManagerInstalled(c)
    THEN [channeld |-> c.channeld, ret |-> Panic("called Option::unwrap() on a None value")]
    ELSE IF req.node_id \notin NodeIds
    THEN [channeld |-> c.channeld, ret |-> Err(<<"node_id", req.node_id>>)]
    ELSE IF ~created
    THEN [channeld |-> c.channeld, ret |-> Err(<<"create_channel", "APIError">>)]
    ELSE [channeld |-> [c.channeld EXCEPT !.channels =
                           Append(@, NewChannel(req.node_id, req.amount, req.public))],
          ret |-> [kind |-> "Ok",
                   value |-> [node_id |-> req.node_id, amount |-> req.amount,
                              public |-> req.public, push_mst |-> req.amount,
                              to_self_delay |-> 2016]]]

\* open_channel(&self, open_channel): created tells whether create_channel
\* accepted the channel. Returns [channeld, ret].
open_channel(c, req, created) ==
    IF ~ManagerInstalled(c)
    THEN [channeld |-> c.channeld, ret |-> Panic("called Option::unwrap() on a None value")]
    ELSE IF req.node_id \notin NodeIds
    THEN [channeld |-> c.channeld, ret |-> Err(<<"node_id", req.node_id>>)]
    ELSE IF ~created
    THEN [channeld |-> c.channeld, ret |-> Err(<<"create_channel", "APIError">>)]
    ELSE [channeld |-> [c.channeld EXCEPT !.channels =
                           Append(@, NewChannel(req.node_id, req.amount, req.public))],
          ret |-> [kind |-> "Ok",
                   value |-> [node_id |-> req.node_id, amount |-> req.amount,
                              public |-> req.public, push_mst |-> 0,
                              to_self_delay |-> 2016]]]

\* ---- the lifecycle as a state machine ---------------------------------------

\* A snapshot left by an earlier run of the node: one ready channel
EarlierManager ==
    [id |-> 0, origin |-> "new", best_block |-> <<"H1", 99>>,
     channels |-> <<[NewChannel("02aa", 50000, TRUE) EXCEPT
                        !.short_channel_id = Some(777), !.is_channel_ready = TRUE]>>,
     monitor |-> None, router |-> None]

\* What a snapshot write records of the manager
Held(m) == [i \in 1..Len(m.channels) |-> ChannelOf(m.channels[i])]

\* A new process over the files of conf.path: empty persisted state, or the
\* snapshot of an earlier run
InitFiles(graphs, scorers, monitors) ==
    /\ cm = NewManager
    /\ io = NoIo
    /\ last = [n |-> 0, op |-> "new", args |-> <<>>, ret |-> Ok]
    /\ \E g \in graphs, sc \in scorers, mo \in monitors :
         \/ /\ disk = [graph |-> g, scorer |-> sc, monitors |-> mo, manager |-> Missing]
            /\ written = None
         \/ /\ disk = [graph |-> g, scorer |-> sc, monitors |-> mo,
                       manager |-> EncodeManager(EarlierManager)]
            /\ written = Some(Held(EarlierManager))

InitLife == InitFiles(GraphFiles, ScorerFiles, MonitorFiles)

InitRestore == InitFiles({Missing}, {Missing}, {[kind |-> "monitors", records |-> <<>>]})

Call(op, args, ret) ==
    last' = [n |-> last.n + 1, op |-> op, args |-> args, ret |-> ret]

\* A new process: LampoChannelManager::new over the files left on disk
New ==
    /\ last.n < MaxCalls
    /\ cm' = NewManager
    /\ io' = NoIo
    /\ Call("new", <<>>, Ok)
    /\ UNCHANGED <<disk, written, reactVars, syncVars, loadVars, handleVars>>

NetworkGraph(seed) ==
    /\ last.n < MaxCalls
    /\ LET r == network_graph([cm |-> cm, io |-> io], last.n + 1, seed)
       IN  /\ cm' = r.cm
           /\ io' = r.io
           /\ Call("network_graph", <<>>, [kind |-> "Ok", value |-> r.cm.router])
    /\ UNCHANGED <<disk, written, reactVars, syncVars, loadVars, handleVars>>

Start(seed, block, height, timestamp) ==
    /\ last.n < MaxCalls
    /\ LET r == start([cm |-> cm, io |-> io], last.n + 1, seed, block, height, timestamp)
       IN  /\ cm' = r.cm
           /\ io' = r.io
           /\ Call("start", <<block, height, timestamp>>, r.ret)
    /\ UNCHANGED <<disk, written, reactVars, syncVars, loadVars, handleVars>>

Restart(seed) ==
    /\ last.n < MaxCalls
    /\ LET r == restart([cm |-> cm, io |-> io], last.n + 1, seed)
       IN  /\ cm' = r.cm
           /\ io' = r.io
           /\ Call("restart", <<>>, r.ret)
    /\ UNCHANGED <<disk, written, reactVars, syncVars, loadVars, handleVars>>

IsRestarting ==
    /\ last.n < MaxCalls
    /\ Call("is_restarting", <<>>, is_restarting)
    /\ UNCHANGED <<cm, io, disk, written, reactVars, syncVars, loadVars, handleVars>>

ListChannel ==
    /\ last.n < MaxCalls
    /\ Call("list_channel", <<>>, list_channel(cm))
    /\ UNCHANGED <<cm, io, disk, written, reactVars, syncVars, loadVars, handleVars>>

OpenChannel(req, created) ==
    /\ last.n < MaxCalls
    /\ cm.channeld # None => Len(cm.channeld.channels) < MaxChannels
    /\ LET r == open_channel(cm, req, created)
       IN  /\ cm' = [cm EXCEPT !.channeld = r.channeld]
           /\ Call("open_channel", <<req, created>>, r.ret)
    /\ UNCHANGED <<io, disk, written, reactVars, syncVars, loadVars, handleVars>>

\* The protocol engine confirms channel i: it gets its short id and is ready
ChannelProgress(i) ==
    /\ cm.channeld # None
    /\ i \in 1..Len(cm.channeld.channels)
    /\ ~cm.channeld.channels[i].is_channel_ready
    /\ cm' = [cm EXCEPT !.channeld.channels[i].short_channel_id = Some(700 + i),
                        !.channeld.channels[i].is_channel_ready = TRUE]
    /\ UNCHANGED <<io, disk, last, written, reactVars, syncVars, loadVars, handleVars>>

\* The persister writes the manager snapshot (conf.path/manager)
PersistManager ==
    /\ cm.channeld # None
    /\ disk' = [disk EXCEPT !.manager = EncodeManager(cm.channeld)]
    /\ written' = Some(Held(cm.channeld))
    /\ UNCHANGED <<cm, io, last, reactVars, syncVars, loadVars, handleVars>>

\* The environment rewrites or damages the optional files under conf.path
EnvFile ==
    /\ \/ \E g \in GraphFiles : disk' = [disk EXCEPT !.graph = g]
       \/ \E sc \in ScorerFiles : disk' = [disk EXCEPT !.scorer = sc]
       \/ \E mo \in MonitorFiles : disk' = [disk EXCEPT !.monitors = mo]
    /\ disk' # disk
    /\ UNCHANGED <<cm, io, last, written, reactVars, syncVars, loadVars, handleVars>>

\* The manager snapshot is lost or damaged
EnvManagerFile ==
    /\ \E ma \in {Missing, Corrupt} : disk' = [disk EXCEPT !.manager = ma]
    /\ disk' # disk
    /\ UNCHANGED <<cm, io, last, written, reactVars, syncVars, loadVars, handleVars>>

\* The files a process finds when it loads its monitor records
InitLoad == InitFiles(GraphFiles, ScorerFiles, LoadMonitorFiles)

LoadChannelMonitors(watch) ==
    /\ last.n < MaxCalls
    /\ LET r == load_channel_monitors(cm, watch, registered, watching)
       IN  /\ registered' = r.registered
           /\ watching' = r.watching
           /\ Call("load_channel_monitors", <<watch>>, r.ret)
    /\ UNCHANGED <<cm, io, disk, written, reactVars, syncVars, handleVars>>

----------------------------------------------------------------------------
(***************************************************************************)
(* The chain-sync loop: LampoChannelManager::listen                        *)
(***************************************************************************)

SyncHeights == {<<"Height", 100>>, <<"Height", 101>>}

\* lampo_common::event::Event, as far as the loop tells its values apart
Events ==
    [tag : {"OnChain"}, kind : {"NewBestBlock"}, hash : Hashes, height : SyncHeights]
    \cup [tag : {"OnChain"}, kind : {"ConfirmedTransaction"}, tx : {"tx1"}, idx : {0, 1},
          header : {"header1"}, height : {<<"Height", 100>>}]
    \cup [tag : {"OnChain"}, kind : {"SendRawTransaction"}]
    \cup [tag : {"Lightning"}]

\* idx as usize
AsUsize(idx) == idx

\* let Ok(Event::OnChain(event)) = events.recv() else { continue }, then the
\* two arms of the match that are not `_ => continue`
Applied(e) == e.tag = "OnChain" /\ e.kind \in {"NewBestBlock", "ConfirmedTransaction"}

\* The call the loop makes on the ChainMonitor for an event
MonitorCall(e) ==
    IF e.kind = "NewBestBlock"
    THEN [op |-> "best_block_updated", hash |-> e.hash, height |-> ToConsensusU32(e.height)]
    ELSE [op |-> "transactions_confirmed", header |-> e.header,
          txdata |-> <<<<AsUsize(e.idx), e.tx>>>>, height |-> ToConsensusU32(e.height)]

ManagerCallFirstIndex(e) ==
    IF e.kind = "NewBestBlock"
    THEN [op |-> "best_block_updated", hash |-> e.hash, height |-> ToConsensusU32(e.height)]
    ELSE [op |-> "transactions_confirmed", header |-> e.header,
          txdata |-> <<<<0, e.tx>>>>, height |-> ToConsensusU32(e.height)]

\* The call the loop makes on the ChannelManager for an event
ManagerCall(e) ==
    IF e.kind = "NewBestBlock"
    THEN [op |-> "best_block_updated", hash |-> e.hash, height |-> ToConsensusU32(e.height)]
    ELSE [op |-> "transactions_confirmed", header |-> e.header,
          txdata |-> <<<<AsUsize(e.idx), e.tx>>>>, height |-> ToConsensusU32(e.height)]

AfterMonitorReceives(e) == "recv"

\* Where the loop goes once the ChainMonitor was called: on to the ChannelManager
AfterMonitor(e) == "manager"

\* Confirm::best_block_updated on the ChannelManager moves its best block
ManagerApply(m, call) ==
    IF call.op = "best_block_updated"
    THEN [m EXCEPT !.best_block = <<call.hash, call.height>>]
    ELSE m

HandlerRefs == {[kind |-> "LampoHandler", id |-> 1], [kind |-> "LampoHandler", id |-> 2]}

\* The struct when listen is spawned: listen takes Arc<Self>, so start and
\* restart (&mut self) ran before it, if at all
Booted(how) ==
    LET fresh == [cm |-> NewManager, io |-> NoIo]
    IN  CASE how = "start"   -> start(fresh, 1, "seedA", "H1", <<"Height", 99>>, 7)
          [] how = "restart" -> restart(fresh, 1, "seedA")
          [] OTHER           -> [cm |-> NewManager, io |-> NoIo, ret |-> Ok]

InitSync ==
    /\ written = None
    /\ \E ma \in {Missing, EncodeManager(EarlierManager)} :
         disk = [graph |-> Missing, scorer |-> Missing,
                 monitors |-> [kind |-> "monitors", records |-> <<>>], manager |-> ma]
    /\ \E how \in {"new", "start", "restart"} :
         /\ cm = Booted(how).cm
         /\ io = Booted(how).io
         /\ last = [n |-> 1, op |-> how, args |-> <<>>, ret |-> Booted(how).ret]
    /\ stream = <<>>
    /\ closed = FALSE
    /\ taken = <<>>
    /\ listenPc = "unspawned"
    /\ cur = None
    /\ monSeen = <<>>
    /\ mgrSeen = <<>>

\* set_handler(&self, handler): the slot is replaced
SetHandler(h) ==
    /\ cm.handler # h
    /\ cm' = [cm EXCEPT !.handler = h]
    /\ UNCHANGED <<disk, io, last, written, reactVars, syncVars, loadVars, handleVars>>

HandlerOrNothing(c) == [kind |-> "Ok", value |-> c.handler]

\* handler(&self): self.handler.borrow().clone().unwrap()
handler(c) ==
    IF c.handler = None
    THEN Panic("called Option::unwrap() on a None value")
    ELSE [kind |-> "Ok", value |-> c.handler]

\* listen: the thread starts and takes the event stream of the handler;
\* handler() unwraps the slot
Listen ==
    /\ listenPc = "unspawned"
    /\ listenPc' = IF handler(cm).kind = "Panic" THEN "panicked" ELSE "recv"
    /\ UNCHANGED <<stream, closed, taken, cur, monSeen, mgrSeen, lifeVars, reactVars, loadVars, handleVars>>

\* A producer emits an event on the handler's channel
Emit(e) ==
    /\ ~closed
    /\ Len(taken) + Len(stream) < MaxEvents
    /\ stream' = Append(stream, e)
    /\ UNCHANGED <<closed, taken, listenPc, cur, monSeen, mgrSeen, lifeVars, reactVars, loadVars, handleVars>>

\* Every sender is dropped
Disconnect ==
    /\ ~closed
    /\ closed' = TRUE
    /\ UNCHANGED <<stream, taken, listenPc, cur, monSeen, mgrSeen, lifeVars, reactVars, loadVars, handleVars>>

IgnoredStops(e) == "stopped"

\* else { continue } of the let-else and the arm _ => continue of the match
Ignored(e) == "recv"

\* events.recv() yields the next event
Recv ==
    /\ listenPc = "recv"
    /\ stream # <<>>
    /\ LET e == Head(stream)
       IN  /\ stream' = Tail(stream)
           /\ taken' = Append(taken, e)
           /\ IF Applied(e)
              THEN cur' = e /\ listenPc' = "monitor"
              ELSE cur' = cur /\ listenPc' = Ignored(e)
    /\ UNCHANGED <<closed, monSeen, mgrSeen, lifeVars, reactVars, loadVars, handleVars>>

\* events.recv() fails on the disconnected, drained channel: continue
RecvError ==
    /\ listenPc = "recv"
    /\ stream = <<>>
    /\ closed
    /\ UNCHANGED vars

\* self.chain_monitor().best_block_updated / transactions_confirmed
ApplyMonitor ==
    /\ listenPc = "monitor"
    /\ IF cm.monitor = None
       THEN listenPc' = "panicked" /\ UNCHANGED monSeen
       ELSE /\ monSeen' = Append(monSeen, MonitorCall(cur))
            /\ listenPc' = AfterMonitor(cur)
    /\ UNCHANGED <<stream, closed, taken, cur, mgrSeen, lifeVars, reactVars, loadVars, handleVars>>

\* self.manager().best_block_updated / transactions_confirmed
ApplyManager ==
    /\ listenPc = "manager"
    /\ IF cm.channeld = None
       THEN listenPc' = "panicked" /\ UNCHANGED <<mgrSeen, cm>>
       ELSE /\ mgrSeen' = Append(mgrSeen, ManagerCall(cur))
            /\ cm' = [cm EXCEPT !.channeld = ManagerApply(@, ManagerCall(cur))]
            /\ listenPc' = "recv"
    /\ UNCHANGED <<stream, closed, taken, cur, monSeen, disk, io, last, written, reactVars, loadVars, handleVars>>

----------------------------------------------------------------------------
(***************************************************************************)
(* Protocol callbacks: LampoHandler::handle                                *)
(***************************************************************************)

Fees == {253, 2000}

\* lightning::events::Event, as far as handle tells its values apart
LdkEvents ==
    [kind : {"ChannelReady"}, channel_id : {"chan1"}, user_channel_id : {11},
     counterparty_node_id : NodeIds, channel_type : {"static_remote_key"}]
    \cup [kind : {"ChannelClosed"}, channel_id : {"chan1"}, user_channel_id : {11},
          reason : {"CooperativeClosure"}]
    \cup [kind : {"FundingGenerationReady"}, temporary_channel_id : {"tmp1", "tmp2"},
          counterparty_node_id : NodeIds, channel_value_satoshis : Amounts,
          output_script : {"script1"}]
    \cup [kind : {"ChannelPending"}, counterparty_node_id : NodeIds, funding_txo : {"txo1"}]
    \cup [kind : {"OpenChannelRequest"}, temporary_channel_id : {"tmp1"},
          counterparty_node_id : NodeIds, funding_satoshis : {50000}]
    \cup [kind : {"PaymentClaimable", "PaymentSent"}]

\* A call handle makes on a collaborator, and what it got back
Made(call, args, ret) == [call |-> call, args |-> args, ret |-> ret]

\* ChannelEvents::change_state_channel: unimplemented!(), nothing is applied
change_state_channel(c, event) ==
    [applied |-> <<>>, ret |-> Panic("not implemented")]

\* self.chain_manager.backend.fee_rate_estimation(6): a plain fee, no Result
fee_rate_estimation(target, fee) == [kind |-> "Ok", value |-> fee]

\* self.wallet_manager.create_transaction(output_script, value, fee)
create_transaction(script, value, fee, wallet) ==
    IF wallet
    THEN [kind |-> "Ok", value |-> [script |-> script, value |-> value, fee |-> fee]]
    ELSE Err(<<"wallet", "create_transaction">>)

\* ChannelManager::funding_transaction_generated(..).map_err(..)
funding_transaction_generated(temp, counterparty, tx, accept) ==
    IF accept THEN Ok ELSE Err(<<"APIError", "funding_transaction_generated">>)

\* An outcome of handle: the calls made in order, the transitions applied to
\* the channel state machine, the fundings the manager accepted, the result
Outcome(calls, applied, fundings, ret) ==
    [calls |-> calls, applied |-> applied, fundings |-> fundings, ret |-> ret]

FundingSwallowsError(c, ev, fee, wallet, accept) ==
    LET est == Made("fee_rate_estimation", <<6>>, fee_rate_estimation(6, fee))
        txr == create_transaction(ev.output_script, ev.channel_value_satoshis,
                                  est.ret.value, wallet)
        mk  == Made("create_transaction",
                    <<ev.output_script, ev.channel_value_satoshis, est.ret.value>>, txr)
    IN  IF txr.kind = "Err"
        THEN Outcome(<<est, mk>>, <<>>, {}, Ok)
        ELSE IF c.channeld = None
        THEN Outcome(<<est, mk>>, <<>>, {},
                     Panic("called Option::unwrap() on a None value"))
        ELSE LET args == <<ev.temporary_channel_id, ev.counterparty_node_id, txr.value>>
                 fr == funding_transaction_generated(args[1], args[2], args[3], accept)
                 fd == Made("funding_transaction_generated", args, fr)
             IN  Outcome(<<est, mk, fd>>, <<>>, IF fr = Ok THEN {args} ELSE {}, Ok)

\* The arm Event::FundingGenerationReady of handle: fee is what the backend
\* estimates, wallet and accept tell whether the wallet builds the
\* transaction and whether the manager accepts it
FundingGenerationReady(c, ev, fee, wallet, accept) ==
    LET est == Made("fee_rate_estimation", <<6>>, fee_rate_estimation(6, fee))
        txr == create_transaction(ev.output_script, ev.channel_value_satoshis,
                                  est.ret.value, wallet)
        mk  == Made("create_transaction",
                    <<ev.output_script, ev.channel_value_satoshis, est.ret.value>>, txr)
    IN  IF txr.kind = "Err"
        THEN Outcome(<<est, mk>>, <<>>, {}, txr)
        ELSE IF c.channeld = None
        THEN Outcome(<<est, mk>>, <<>>, {},
                     Panic("called Option::unwrap() on a None value"))
        ELSE LET args == <<ev.temporary_channel_id, ev.counterparty_node_id, txr.value>>
                 fr == funding_transaction_generated(args[1], args[2], args[3], accept)
                 fd == Made("funding_transaction_generated", args, fr)
             IN  Outcome(<<est, mk, fd>>, <<>>, IF fr = Ok THEN {args} ELSE {}, fr)

\* The arm Event::ChannelReady of handle
ChannelReady(c, ev) ==
    LET event == [channel_id |-> ev.channel_id, node_id |-> ev.counterparty_node_id,
                  channel_type |-> ev.channel_type, state |-> "Ready"]
        r == change_state_channel(c, event)
    IN  Outcome(<<Made("change_state_channel", <<event>>, r.ret)>>, r.applied, {}, r.ret)

HandleUnknownAsError(c, ev, fee, wallet, accept) ==
    CASE ev.kind = "OpenChannelRequest" -> Outcome(<<>>, <<>>, {}, Panic("not implemented"))
      [] ev.kind = "ChannelReady" -> ChannelReady(c, ev)
      [] ev.kind = "ChannelClosed" -> Outcome(<<>>, <<>>, {}, Ok)
      [] ev.kind = "FundingGenerationReady" ->
            FundingGenerationReady(c, ev, fee, wallet, accept)
      [] ev.kind = "ChannelPending" -> Outcome(<<>>, <<>>, {}, Ok)
      [] OTHER -> Outcome(<<>>, <<>>, {}, Err(<<"unknown event", ev.kind>>))

\* handle(&self, event)
handle(c, ev, fee, wallet, accept) ==
    CASE ev.kind = "OpenChannelRequest" -> Outcome(<<>>, <<>>, {}, Panic("not implemented"))
      [] ev.kind = "ChannelReady" -> ChannelReady(c, ev)
      [] ev.kind = "ChannelClosed" -> Outcome(<<>>, <<>>, {}, Ok)
      [] ev.kind = "FundingGenerationReady" ->
            FundingGenerationReady(c, ev, fee, wallet, accept)
      [] ev.kind = "ChannelPending" -> Outcome(<<>>, <<>>, {}, Ok)
      [] OTHER -> Outcome(<<>>, <<>>, {}, Panic("internal error: entered unreachable code"))

\* The channel manager was started before the protocol engine calls back
InitHandle ==
    /\ written = None
    /\ disk = [graph |-> Missing, scorer |-> Missing,
               monitors |-> [kind |-> "monitors", records |-> <<>>], manager |-> Missing]
    /\ cm = Booted("start").cm
    /\ io = Booted("start").io
    /\ last = [n |-> 1, op |-> "start", args |-> <<>>, ret |-> Booted("start").ret]
    /\ handled = <<>>
    /\ funded = {}

\* The protocol engine hands one event to the handler
Handle(ev, fee, wallet, accept) ==
    /\ Len(handled) < MaxHandled
    /\ LET r == handle(cm, ev, fee, wallet, accept)
       IN  /\ handled' = Append(handled, [event |-> ev, calls |-> r.calls,
                                          applied |-> r.applied, ret |-> r.ret])
           /\ funded' = funded \cup r.fundings
    /\ UNCHANGED <<lifeVars, reactVars, syncVars, loadVars>>

----------------------------------------------------------------------------
(***************************************************************************)
(* Specifications                                                          *)
(***************************************************************************)

ReactIdle == InitReact

LoadIdle == registered = {} /\ watching = {}

HandleIdle == handled = <<>> /\ funded = {}

LifeIdle ==
    /\ cm = NewManager
    /\ io = NoIo
    /\ last = [n |-> 0, op |-> "new", args |-> <<>>, ret |-> Ok]
    /\ disk = [graph |-> Missing, scorer |-> Missing,
               monitors |-> [kind |-> "monitors", records |-> <<>>], manager |-> Missing]
    /\ written = None

SyncIdle ==
    /\ stream = <<>>
    /\ closed = FALSE
    /\ taken = <<>>
    /\ listenPc = "unspawned"
    /\ cur = None
    /\ monSeen = <<>>
    /\ mgrSeen = <<>>

\* The external handler chain
InitR == InitReact /\ LifeIdle /\ SyncIdle /\ LoadIdle /\ HandleIdle

NextReact ==
    \/ \E h \in HandlerIds : AddExternalHandler(h)
    \/ \E req \in Requests, open \in BOOLEAN : ReactExternal(req, open)
    \/ ReactConsult

SpecReact == InitR /\ [][NextReact]_vars

\* The lifecycle of the channel manager
InitL == InitLife /\ ReactIdle /\ SyncIdle /\ LoadIdle /\ HandleIdle

NextLife ==
    \/ New
    \/ \E seed \in Seeds : NetworkGraph(seed)
    \/ \E seed \in Seeds, block \in Hashes, height \in Heights, ts \in Timestamps :
          Start(seed, block, height, ts)
    \/ \E seed \in Seeds : Restart(seed)
    \/ IsRestarting
    \/ ListChannel
    \/ EnvFile
    \/ EnvManagerFile

SpecLife == InitL /\ [][NextLife]_vars

\* Channels, the snapshot of the manager and its restore
InitC == InitRestore /\ ReactIdle /\ SyncIdle /\ LoadIdle /\ HandleIdle

NextRestore ==
    \/ New
    \/ \E seed \in Seeds, block \in Hashes, height \in Heights, ts \in Timestamps :
          Start(seed, block, height, ts)
    \/ \E seed \in Seeds : Restart(seed)
    \/ ListChannel
    \/ \E req \in OpenChannelRequests, created \in BOOLEAN : OpenChannel(req, created)
    \/ \E i \in 1..MaxChannels : ChannelProgress(i)
    \/ PersistManager
    \/ EnvManagerFile

SpecRestore == InitC /\ [][NextRestore]_vars

\* Loading the persisted monitor records
InitM == InitLoad /\ ReactIdle /\ SyncIdle /\ LoadIdle /\ HandleIdle

NextLoad ==
    \/ NetworkGraph("seedA")
    \/ Start("seedA", "H1", <<"Height", 100>>, 7)
    \/ Restart("seedA")
    \/ \E watch \in BOOLEAN : LoadChannelMonitors(watch)
    \/ EnvManagerFile

SpecLoad == InitM /\ [][NextLoad]_vars

\* The chain-sync loop
InitS == InitSync /\ ReactIdle /\ LoadIdle /\ HandleIdle

NextSync ==
    \/ \E h \in HandlerRefs : SetHandler(h)
    \/ Listen
    \/ \E e \in Events : Emit(e)
    \/ Disconnect
    \/ Recv
    \/ RecvError
    \/ ApplyMonitor
    \/ ApplyManager

SpecSync == InitS /\ [][NextSync]_vars

\* The protocol callbacks
InitH == InitHandle /\ ReactIdle /\ SyncIdle /\ LoadIdle

NextHandle ==
    \E ev \in LdkEvents, fee \in Fees, wallet \in BOOLEAN, accept \in BOOLEAN :
        Handle(ev, fee, wallet, accept)

SpecHandle == InitH /\ [][NextHandle]_vars

----------------------------------------------------------------------------
(***************************************************************************)
(* Properties of the external handler chain (SpecReact)                    *)
(***************************************************************************)

\* The first handler of the chain with an opinion on req (0: none has one)
FirstAnswer(chain, req) ==
    LET S == {i \in 1..Len(chain) : ExternalHandle(chain[i], req).kind # "None"}
    IN  IF S = {} THEN 0 ELSE CHOOSE i \in S : \A j \in S : i <= j

UpTo(n) == [i \in 1..n |-> i]

\* The step on which a dispatch returns to its caller
Returns == reactPc = "iter" /\ reactPc' = "idle" /\ reactRet'.kind # "Panic"

\* C3, as stated: a dispatch whose first handler with an opinion answers
\* consults the handlers in registration order up to that handler and no
\* further, sends exactly its response on the reply channel and returns
\* success.
C3_FirstAnswerAlwaysSucceeds ==
    [][LET w == FirstAnswer(external_handlers, reactReq)
       IN  (Returns /\ w # 0 /\ ExternalHandle(external_handlers[w], reactReq).kind = "Some")
           => /\ consulted' = UpTo(w)
              /\ sent' = <<ExternalHandle(external_handlers[w], reactReq).resp>>
              /\ reactRet' = Ok]_vars

\* C3, amended: the handlers are consulted in registration order up to the
\* first one that answers and no further; with the receiver of the reply
\* channel alive exactly that response is sent and the dispatch returns
\* success; with the receiver dropped nothing is delivered and the dispatch
\* returns the error of the send.
C3_FirstAnswerWins ==
    [][LET w == FirstAnswer(external_handlers, reactReq)
       IN  (Returns /\ w # 0 /\ ExternalHandle(external_handlers[w], reactReq).kind = "Some")
           => /\ consulted' = UpTo(w)
              /\ replyOpen => /\ sent' = <<ExternalHandle(external_handlers[w], reactReq).resp>>
                              /\ reactRet' = Ok
              /\ ~replyOpen => /\ sent' = <<>>
                               /\ reactRet'.kind = "Err"
                               /\ reactRet' # Err(<<"method", reactReq.method, "not found">>)]_vars

C3_Witness ==
    /\ consulted = <<1, 2>>
    /\ reactReq.method = "foo"
    /\ reactPc = "idle"
    /\ reactRet = Ok
    /\ external_handlers = <<"A", "B", "C">>
    /\ sent = <<(<<"B", "foo">>)>>

\* C4: when no handler of the chain has an opinion on the request (the empty
\* chain included), the dispatch consults them all, sends nothing and fails
\* with the method-not-found error that names the requested method.
C4_MethodNotFound ==
    [][(Returns /\ FirstAnswer(external_handlers, reactReq) = 0)
       => /\ consulted' = UpTo(Len(external_handlers))
          /\ sent' = <<>>
          /\ reactRet' = [kind |-> "Err", err |-> <<"method", reactReq.method, "not found">>]]_vars

C4_Witness ==
    /\ consulted = <<1, 2>>
    /\ reactReq.method = "bar"
    /\ reactPc = "idle"
    /\ external_handlers = <<"A", "B">>
    /\ sent = <<>>
    /\ reactRet = [kind |-> "Err", err |-> <<"method", "bar", "not found">>]

\* C5: when the first handler with an opinion fails, the dispatch returns
\* that handler's error, sends nothing and consults no handler after it.
C5_HandlerErrorAborts ==
    [][LET w == FirstAnswer(external_handlers, reactReq)
       IN  (Returns /\ w # 0 /\ ExternalHandle(external_handlers[w], reactReq).kind = "Err")
           => /\ consulted' = UpTo(w)
              /\ sent' = <<>>
              /\ reactRet' = [kind |-> "Err",
                              err |-> ExternalHandle(external_handlers[w], reactReq).err]]_vars

C5_Witness ==
    /\ consulted = <<1, 2>>
    /\ reactReq.method = "foo"
    /\ reactPc = "idle"
    /\ external_handlers = <<"A", "E", "C">>
    /\ sent = <<>>
    /\ reactRet = [kind |-> "Err", err |-> <<"handler error", "E">>]

\* C16: appending is serialized against dispatch: while a dispatch iterates
\* the chain no call of add_external_handler or react aborts, and a chain
\* that changes under the iteration only grows by handlers at its end.
C16_AppendSerializedAgainstDispatch ==
    [][reactPc = "iter"
       => /\ reactRet'.kind # "Panic"
          /\ Len(external_handlers') >= Len(external_handlers)
          /\ SubSeq(external_handlers', 1, Len(external_handlers)) = external_handlers]_vars

----------------------------------------------------------------------------
(***************************************************************************)
(* Properties of the chain-sync loop (SpecSync)                            *)
(***************************************************************************)

\* The NewBestBlock and ConfirmedTransaction events among those received
ChainFacts ==
    SelectSeq(taken, LAMBDA e : /\ e.tag = "OnChain"
                                /\ e.kind \in {"NewBestBlock", "ConfirmedTransaction"})

\* The call an event stands for, with the arguments the event carries
CallFor(e) ==
    IF e.kind = "NewBestBlock"
    THEN [op |-> "best_block_updated", hash |-> e.hash, height |-> e.height[2]]
    ELSE [op |-> "transactions_confirmed", header |-> e.header,
          txdata |-> <<(<<e.idx, e.tx>>)>>, height |-> e.height[2]]

\* C1: the ChainMonitor is called for an event before the ChannelManager is,
\* both with the arguments of the event; the calls of each component are the
\* received NewBestBlock/ConfirmedTransaction events, once each and in their
\* order of arrival, and none is missing when the loop is back at receive.
C1_MonitorFirstSameArgsInOrder ==
    /\ Len(mgrSeen) <= Len(monSeen)
    /\ Len(monSeen) <= Len(ChainFacts)
    /\ \A i \in 1..Len(monSeen) : monSeen[i] = CallFor(ChainFacts[i])
    /\ \A i \in 1..Len(mgrSeen) : mgrSeen[i] = CallFor(ChainFacts[i])
    /\ listenPc = "recv" => /\ Len(monSeen) = Len(ChainFacts)
                            /\ Len(mgrSeen) = Len(ChainFacts)

C1_Witness ==
    /\ listenPc = "recv"
    /\ Len(taken) = 3
    /\ Len(mgrSeen) = 2
    /\ mgrSeen[1].op = "transactions_confirmed"
    /\ mgrSeen[1].txdata = <<(<<1, "tx1">>)>>
    /\ mgrSeen[2] = [op |-> "best_block_updated", hash |-> "H2", height |-> 101]
    /\ monSeen = mgrSeen

\* C2: the two components move in lockstep: the calls seen by the
\* ChannelManager are a prefix of those seen by the ChainMonitor and at most
\* one call behind, no event is received while one is still being applied,
\* and both have seen the same calls whenever the loop waits to receive.
C2_Lockstep ==
    /\ Len(mgrSeen) <= Len(monSeen)
    /\ Len(monSeen) <= Len(mgrSeen) + 1
    /\ SubSeq(monSeen, 1, Len(mgrSeen)) = mgrSeen
    /\ Len(ChainFacts) <= Len(mgrSeen) + 1
    /\ listenPc \in {"unspawned", "recv"} => /\ mgrSeen = monSeen
                                             /\ Len(ChainFacts) = Len(mgrSeen)
    /\ listenPc = "monitor" => /\ mgrSeen = monSeen
                               /\ Len(ChainFacts) = Len(mgrSeen) + 1
    /\ listenPc = "manager" => /\ Len(monSeen) = Len(mgrSeen) + 1
                               /\ Len(ChainFacts) = Len(monSeen)

C2_Witness ==
    /\ listenPc = "manager"
    /\ Len(mgrSeen) = 1
    /\ Len(monSeen) = 2
    /\ stream # <<>>

\* C17: the handler slot is write-once: once a handler is stored, no step
\* changes the stored handler, so handler() returns the same instance ever
\* after.
C17_HandlerSlotWriteOnce ==
    [][cm.handler # None
       => /\ cm'.handler = cm.handler
          /\ handler(cm') = handler(cm)]_vars

\* The loop is past its spawn and has not panicked
Listening == listenPc \in {"recv", "monitor", "manager"}

\* C18: an event received with a tag other than on-chain, or an on-chain
\* event of a kind other than NewBestBlock and ConfirmedTransaction, makes
\* no call on the ChainMonitor or the ChannelManager and leaves the loop at
\* its receive; a receive error changes nothing at all; and the loop has no
\* exit: with the ChainMonitor and the ChannelManager installed, a loop that
\* listens keeps listening after every step.
C18_LoopNeverExits ==
    /\ [][(listenPc = "recv" /\ taken' # taken /\ ~Applied(taken'[Len(taken')]))
          => /\ listenPc' = "recv"
             /\ UNCHANGED <<monSeen, mgrSeen, cm, cur>>]_vars
    /\ [][(listenPc = "recv" /\ stream = <<>> /\ closed)
          => /\ listenPc' = "recv"
             /\ UNCHANGED <<monSeen, mgrSeen, taken, cur>>]_vars
    /\ [][(Listening /\ cm.monitor # None /\ cm.channeld # None) => Listening']_vars
    /\ [](listenPc \in {"unspawned", "recv", "monitor", "manager", "panicked"})

C18_Witness ==
    /\ listenPc = "recv"
    /\ closed
    /\ stream = <<>>
    /\ Len(taken) = 3
    /\ taken[1].tag = "Lightning"
    /\ taken[2].tag = "OnChain"
    /\ taken[3].tag = "OnChain"
    /\ ChainFacts = <<taken[3]>>
    /\ Len(monSeen) = 1
    /\ Len(mgrSeen) = 1

\* C20: handler() on an empty slot panics, and so does a loop spawned before
\* set_handler: it never reaches its receive, takes no event from the
\* stream and makes no call on the ChainMonitor or the ChannelManager,
\* whatever is stored or sent afterwards.
C20_ReadBeforeWritePanics ==
    /\ [](cm.handler = None => handler(cm).kind = "Panic")
    /\ [][(listenPc = "unspawned" /\ listenPc' # "unspawned" /\ cm.handler = None)
          => listenPc' = "panicked"]_vars
    /\ [][listenPc = "panicked"
          => /\ listenPc' = "panicked"
             /\ UNCHANGED <<taken, monSeen, mgrSeen>>]_vars
    /\ []((listenPc = "panicked" /\ taken = <<>>) => (monSeen = <<>> /\ mgrSeen = <<>>))

C20_Witness ==
    /\ listenPc = "panicked"
    /\ taken = <<>>
    /\ Len(stream) = 2
    /\ cm.handler # None
    /\ cm.channeld # None
    /\ monSeen = <<>>
    /\ mgrSeen = <<>>

----------------------------------------------------------------------------
(***************************************************************************)
(* Properties of the lifecycle (SpecLife, SpecRestore)                     *)
(***************************************************************************)

\* The step is a call of op
IsCall(op) == last'.n = last.n + 1 /\ last'.op = op

\* C6: within a process the router is built once: once a router is cached,
\* every step short of a new process keeps that very router, network_graph
\* returns it, a manager installed by start or restart is wired to it, and
\* the graph file, the scorer file and the random seed are each read or
\* drawn at most once.
C6_RouterBuiltOnce ==
    /\ [](io.graphReads <= 1 /\ io.scorerReads <= 1 /\ io.seedDraws <= 1)
    /\ [][(cm.router # None /\ ~IsCall("new"))
          => /\ cm'.router = cm.router
             /\ IsCall("network_graph") => last'.ret = [kind |-> "Ok", value |-> cm.router]
             /\ (cm'.channeld # cm.channeld /\ cm'.channeld # None)
                   => cm'.channeld.router = cm.router]_vars

C6_Witness ==
    /\ last.n = 3
    /\ last.op = "network_graph"
    /\ cm.router # None
    /\ cm.router.id = 1
    /\ last.ret = [kind |-> "Ok", value |-> cm.router]
    /\ cm.channeld # None
    /\ cm.channeld.id = 2
    /\ cm.graph # read_network(disk.graph)
    /\ io.graphReads = 1

\* C7: an installed ChannelManager comes with an installed ChainMonitor and
\* an installed Router, and was constructed with a monitor and the router
\* that were installed no later than its construction.
C7_ManagerNeedsMonitorAndRouter ==
    cm.channeld # None
    => /\ cm.monitor # None
       /\ cm.router # None
       /\ cm.channeld.monitor # None
       /\ cm.channeld.monitor.id <= cm.channeld.id
       /\ cm.channeld.router = cm.router
       /\ cm.channeld.router.id <= cm.channeld.id

C7_Witness ==
    /\ cm.channeld # None
    /\ last.op = "restart"
    /\ last.ret.kind = "Err"
    /\ cm.monitor # cm.channeld.monitor
    /\ cm.channeld.router.id < cm.channeld.id

\* The channels of a list, by short_channel_id, capacity and readiness
ChannelSet(channels) ==
    {[short_channel_id |-> channels[i].short_channel_id,
      amount_satoshis |-> channels[i].amount_satoshis,
      ready |-> channels[i].ready] : i \in 1..Len(channels)}

C9_FreshStart ==
    [][disk.manager.kind = "missing"
       => /\ IsCall("is_restarting") => last'.ret = [kind |-> "Ok", value |-> FALSE]
          /\ IsCall("start")
               => /\ last'.ret = Ok
                  /\ cm'.channeld # None
                  /\ cm'.channeld.best_block = <<last'.args[1], last'.args[2][2]>>
                  /\ list_channel(cm') = [kind |-> "Ok", value |-> <<>>]]_vars

C9_Witness ==
    /\ disk.manager.kind = "missing"
    /\ last.n = 2
    /\ last.op = "start"
    /\ last.args[1] = "H2"
    /\ last.ret = Ok
    /\ cm.channeld.best_block = <<"H2", 100>>
    /\ list_channel(cm) = [kind |-> "Ok", value |-> <<>>]

\* C10: restart with the manager snapshot missing or undecodable returns an
\* I/O or deserialization error and leaves the installed manager, if any, as
\* it was before the call: none is restored and none is freshly constructed.
C10_RestartFailsWithoutSnapshot ==
    [][(IsCall("restart") /\ disk.manager.kind \in {"missing", "corrupt"})
       => /\ last'.ret.kind = "Err"
          /\ last'.ret.err[1] \in {"io", "decode"}
          /\ cm'.channeld = cm.channeld]_vars

C10_Witness ==
    /\ last.op = "restart"
    /\ last.ret = [kind |-> "Err", err |-> <<"decode", "manager">>]
    /\ disk.manager.kind = "corrupt"
    /\ cm.channeld = None
    /\ cm.monitor # None

\* C11: a missing or corrupt graph file or scorer file never makes
\* network_graph, start or restart fail: network_graph and start always
\* succeed, an error of restart is about the monitor records or the manager
\* snapshot only, and restart succeeds whenever those two are readable. When
\* the router is built over an unreadable graph file the graph is the empty
\* graph of the configured network, and over an unreadable scorer file the
\* scorer is a fresh one with the default decay parameters; the scorer and
\* the router are always built on the graph in use.
C11_GraphAndScorerFallBack ==
    [][/\ IsCall("network_graph") => last'.ret.kind = "Ok"
       /\ IsCall("start") => last'.ret = Ok
       /\ (IsCall("restart") /\ last'.ret.kind = "Err")
             => last'.ret.err[2] \in {"channel monitors", "manager"}
       /\ (IsCall("restart") /\ ~Unreadable(disk.manager) /\ ~Unreadable(disk.monitors))
             => last'.ret = Ok
       /\ ((IsCall("network_graph") \/ IsCall("start") \/ IsCall("restart"))
             /\ cm.router = None)
             => /\ cm'.router # None
                /\ Unreadable(disk.graph) => cm'.graph = [network |-> Network, nodes |-> 0]
                /\ ~Unreadable(disk.graph) => cm'.graph.nodes = disk.graph.nodes
                /\ Unreadable(disk.scorer) => cm'.score.data = "fresh"
                /\ cm'.score.params = "default decay"
                /\ cm'.score.graph = cm'.graph
                /\ cm'.router.graph = cm'.graph]_vars

C11_Witness ==
    /\ last.n = 1
    /\ last.op = "restart"
    /\ last.ret = Ok
    /\ disk.scorer.kind = "missing"
    /\ disk.graph.kind = "graph"
    /\ cm.channeld # None
    /\ cm.score = [params |-> "default decay", graph |-> cm.graph, data |-> "fresh"]
    /\ cm.graph.nodes = 2

----------------------------------------------------------------------------
(***************************************************************************)
(* Properties of open_channel (SpecRestore)                                *)
(***************************************************************************)

\* C13: a successful open_channel(request) returns a response with
\* to_self_delay 2016, push_msat 0 and the node_id, amount and public flag of
\* the request, and the manager then holds one more channel, with the
\* capacity and the announcement flag of the request; when create_channel on
\* the manager fails, open_channel returns an error, no response, and the
\* manager holds the channels it held.
C13_OpenChannelResponse ==
    [][IsCall("open_channel")
       => LET req == last'.args[1]
              created == last'.args[2]
              ret == last'.ret
          IN  /\ ret.kind = "Ok"
                   => /\ created
                      /\ ret.value.to_self_delay = 2016
                      /\ ret.value.push_mst = 0
                      /\ ret.value.node_id = req.node_id
                      /\ ret.value.amount = req.amount
                      /\ ret.value.public = req.public
                      /\ Len(cm'.channeld.channels) = Len(cm.channeld.channels) + 1
                      /\ LET c == cm'.channeld.channels[Len(cm'.channeld.channels)]
                         IN  /\ c.channel_value_satoshis = req.amount
                             /\ c.is_public = req.public
                             /\ c.node_id = req.node_id
              /\ (ManagerInstalled(cm) /\ req.node_id \in NodeIds /\ created)
                   => ret.kind = "Ok"
              /\ (ManagerInstalled(cm) /\ ~created)
                   => /\ ret.kind = "Err"
                      /\ cm' = cm]_vars

C13_Witness ==
    /\ last.op = "open_channel"
    /\ last.ret.kind = "Ok"
    /\ last.ret.value = [node_id |-> "02aa", amount |-> 120000, public |-> TRUE,
                         push_mst |-> 0, to_self_delay |-> 2016]
    /\ last.args[1].amount = 120000
    /\ Len(cm.channeld.channels) = 1

----------------------------------------------------------------------------
(***************************************************************************)
(* Properties of the disk reads and of load_channel_monitors (SpecLoad)    *)
(***************************************************************************)

\* The step is a call of one of the operations that read the disk
IsDiskCall ==
    /\ last'.n = last.n + 1
    /\ last'.op \in {"network_graph", "start", "restart", "load_channel_monitors"}

\* C12 as stated: the manager snapshot is the only mandatory read: restart,
\* start, network_graph and load_channel_monitors return an error only when
\* restart cannot read the manager snapshot, and that error is about the
\* snapshot; unreadable monitor records are not returned as an error.
C12_OnlySnapshotMandatory ==
    [][(IsDiskCall /\ last'.ret.kind = "Err")
       => /\ last'.op = "restart"
          /\ Unreadable(disk.manager)
          /\ last'.ret.err[2] = "manager"]_vars

\* C12, amended: the manager snapshot and the monitor records are the
\* mandatory reads. restart and load_channel_monitors return an I/O error
\* exactly when the monitor records are unreadable, restart otherwise fails
\* exactly when the manager snapshot is unreadable, and no call fails for
\* any other reason, whatever the graph and scorer files are.
C12_SnapshotAndMonitorRecordsMandatory ==
    [][IsDiskCall
       => /\ last'.ret.kind = "Err"
               => \/ /\ last'.op = "restart"
                     /\ ~Unreadable(disk.monitors)
                     /\ Unreadable(disk.manager)
                     /\ last'.ret.err[2] = "manager"
                  \/ /\ last'.op \in {"restart", "load_channel_monitors"}
                     /\ Unreadable(disk.monitors)
                     /\ last'.ret = [kind |-> "Err", err |-> <<"io", "channel monitors">>]
          /\ (last'.op \in {"restart", "load_channel_monitors"} /\ Unreadable(disk.monitors))
               => last'.ret.kind = "Err"
          /\ (last'.op = "restart" /\ Unreadable(disk.manager)) => last'.ret.kind = "Err"
          /\ (~Unreadable(disk.monitors)
                /\ (last'.op = "restart" => ~Unreadable(disk.manager)))
               => last'.ret.kind = "Ok"]_vars

C12_Witness ==
    /\ last.op = "restart"
    /\ last.ret = [kind |-> "Err", err |-> <<"io", "channel monitors">>]
    /\ disk.manager.kind = "manager"
    /\ disk.monitors.kind = "corrupt"
    /\ disk.graph.kind = "corrupt"
    /\ cm.graph = [network |-> Network, nodes |-> 0]
    /\ cm.channeld = None

\* The records on disk are all registered with the installed ChainMonitor
AllWatched(c, wat) ==
    /\ c.monitor # None
    /\ WatchChannels(c.monitor, disk.monitors.records) \subseteq wat

\* C19 as stated: a successful load_channel_monitors(watch) has registered
\* the outputs of every persisted record with the chain backend whatever
\* watch is; with watch set every record is registered with the ChainMonitor,
\* with watch unset none is.
C19_WatchRegistersEveryRecord ==
    [][(IsCall("load_channel_monitors") /\ last'.ret = Ok)
       => /\ OutputsToWatch(disk.monitors.records) \subseteq registered'
          /\ last'.args[1] => AllWatched(cm, watching')
          /\ ~last'.args[1] => watching' = watching]_vars

\* C19, amended: a successful load_channel_monitors(watch) has registered
\* the outputs of every persisted record with the chain backend whatever
\* watch is. With watch set and a ChainMonitor installed every record is
\* registered with that monitor; with watch set and no ChainMonitor
\* installed, or with watch unset, the call registers no record with any
\* monitor, and still succeeds.
C19_WatchNeedsInstalledMonitor ==
    [][(IsCall("load_channel_monitors") /\ last'.ret = Ok)
       => /\ OutputsToWatch(disk.monitors.records) \subseteq registered'
          /\ (last'.args[1] /\ cm.monitor # None)
                => /\ AllWatched(cm, watching')
                   /\ watching' = watching \cup WatchChannels(cm.monitor, disk.monitors.records)
          /\ (last'.args[1] /\ cm.monitor = None) => watching' = watching
          /\ ~last'.args[1] => watching' = watching]_vars

C19_Witness ==
    /\ last.op = "load_channel_monitors"
    /\ last.args = <<TRUE>>
    /\ last.ret = Ok
    /\ cm.monitor = None
    /\ Len(disk.monitors.records) = 2
    /\ registered = {"out1a", "out1b", "out2a"}
    /\ watching = {}

----------------------------------------------------------------------------
(***************************************************************************)
(* Properties of the protocol callbacks (SpecHandle)                       *)
(***************************************************************************)

\* The callbacks of one kind handled so far
HandledOf(kind) == {i \in 1..Len(handled) : handled[i].event.kind = kind}

\* C14: handling a channel-ready callback calls change_state_channel, applies
\* to the channel state machine one transition to Ready tagged with the
\* channel id, the counterparty and the channel type of the callback, and
\* handle completes with the result of that transition.
C14_ChannelReadyApplied ==
    \A i \in HandledOf("ChannelReady") :
        LET h == handled[i]
            event == [channel_id |-> h.event.channel_id,
                      node_id |-> h.event.counterparty_node_id,
                      channel_type |-> h.event.channel_type, state |-> "Ready"]
        IN  /\ Len(h.calls) = 1
            /\ h.calls[1].call = "change_state_channel"
            /\ h.calls[1].args = <<event>>
            /\ h.applied = <<event>>
            /\ h.ret.kind \in {"Ok", "Err"}
            /\ h.ret = h.calls[1].ret

\* The three steps of a funding attempt, as far as it went
FundingInOrder(h) ==
    LET ev == h.event
    IN  /\ Len(h.calls) \in {2, 3}
        /\ h.calls[1] = [call |-> "fee_rate_estimation", args |-> <<6>>,
                         ret |-> h.calls[1].ret]
        /\ h.calls[1].ret.kind = "Ok"
        /\ h.calls[2].call = "create_transaction"
        /\ h.calls[2].args = <<ev.output_script, ev.channel_value_satoshis,
                               h.calls[1].ret.value>>
        /\ Len(h.calls) = 3
              => /\ h.calls[2].ret.kind = "Ok"
                 /\ h.calls[3].call = "funding_transaction_generated"
                 /\ h.calls[3].args = <<ev.temporary_channel_id, ev.counterparty_node_id,
                                        h.calls[2].ret.value>>

\* C15: a funding-generation-ready callback makes, in this order, a fee
\* estimation with target 6, a create_transaction for the script and value of
\* the callback and that fee, and a funding_transaction_generated with that
\* transaction and the temporary channel id and counterparty of the callback.
\* A failed create_transaction is the last call of the attempt; handle
\* returns the error of the step that failed and success otherwise; the
\* manager accepted exactly the fundings of the attempts that succeeded,
\* whatever the earlier attempts returned.
C15_FundingStepsInOrder ==
    /\ \A i \in HandledOf("FundingGenerationReady") :
          LET h == handled[i]
              n == Len(h.calls)
          IN  /\ FundingInOrder(h)
              /\ h.calls[2].ret.kind = "Err" => n = 2
              /\ h.calls[n].ret.kind = "Err" => h.ret = h.calls[n].ret
              /\ h.ret.kind \in {"Ok", "Err"}
              /\ h.ret = Ok <=> (n = 3 /\ h.calls[3].ret = Ok)
              /\ h.applied = <<>>
    /\ funded = {handled[i].calls[3].args : i \in
                    {j \in HandledOf("FundingGenerationReady") : handled[j].ret = Ok}}

C15_Witness ==
    /\ Len(handled) = 2
    /\ handled[1].event.kind = "FundingGenerationReady"
    /\ handled[1].ret = [kind |-> "Err", err |-> <<"wallet", "create_transaction">>]
    /\ Len(handled[1].calls) = 2
    /\ handled[2].event = handled[1].event
    /\ handled[2].ret = Ok
    /\ Len(handled[2].calls) = 3
    /\ handled[2].calls[1].ret.value = 2000
    /\ Cardinality(funded) = 1

\* The callback kinds handle has an arm for
EnumeratedKinds ==
    {"ChannelReady", "ChannelClosed", "FundingGenerationReady", "ChannelPending",
     "OpenChannelRequest"}

\* The step handles one more callback
IsHandle == Len(handled') = Len(handled) + 1

\* The step calls no collaborator and changes neither the channel manager,
\* nor the fundings it accepted, nor the transitions applied to it
MutatesNothing ==
    /\ handled'[Len(handled')].calls = <<>>
    /\ handled'[Len(handled')].applied = <<>>
    /\ funded' = funded
    /\ UNCHANGED <<cm, disk, external_handlers>>

\* C21: a callback of a kind handle has no arm for makes handle panic: it
\* returns neither success nor an error value, and it calls no collaborator
\* and changes no state; a channel-closed or channel-pending callback returns
\* success, calls no collaborator and changes no state.
C21_UnknownTagPanics ==
    [][IsHandle
       => LET h == handled'[Len(handled')]
          IN  /\ h.event.kind \notin EnumeratedKinds
                   => /\ h.ret.kind = "Panic"
                      /\ h.ret.kind \notin {"Ok", "Err"}
                      /\ MutatesNothing
              /\ h.event.kind \in {"ChannelClosed", "ChannelPending"}
                   => /\ h.ret = Ok
                      /\ MutatesNothing]_vars

C21_Witness ==
    /\ Len(handled) = 2
    /\ handled[1].event.kind = "ChannelPending"
    /\ handled[1].ret = Ok
    /\ handled[2].event.kind = "PaymentSent"
    /\ handled[2].ret.kind = "Panic"
    /\ handled[2].calls = <<>>
    /\ funded = {}

====
